---------------------------- MODULE Spec2Model ----------------------------
(***************************************************************************)
(* Model of lfsr/lfsr.py: the Fibonacci register (class LFSR) and the      *)
(* Galois register (class Galois_LFSR).  A register object is a record of  *)
(* its attributes; every method is an operator from the object before the  *)
(* call to the object after it (and the value returned), and one action    *)
(* per method and class applies it to the register under observation.      *)
(*                                                                         *)
(* Strings of binary digits are sequences over {0, 1}, most significant    *)
(* digit first, exactly as Python's format(..., 'b') and int(..., 2) see   *)
(* them.  Sequences are 1-based: Python's index x is index x + 1 here.     *)
(***************************************************************************)
EXTENDS Integers, Sequences, FiniteSets, TLC

(* ------------------------------ bounds --------------------------------- *)

\* unchecked construction is tried with polynomials 0 .. MaxAnyPoly
MaxAnyPoly == 4

\* unchecked construction and load are tried with states 0 .. MaxAnyState
MaxAnyState == 9

\* registers handed to from_lfsrs have polynomials 1 .. MaxInputPoly
\* (LFSR: 2 .. MaxInputPoly)
MaxInputPoly == 3

\* from_lfsrs is called with the register and 1 .. MaxInputs further ones
MaxInputs == 1

\* polynomials 1 .. MaxPoly are tried (LFSR: 2 .. MaxPoly)
MaxPoly == 11

\* load(state) is called with the in-range states among 0 .. MaxLoad
MaxLoad == 3

\* cycle(rounds) is called with rounds in 0 .. MaxRounds
MaxRounds == 3

(* --------------------- Python primitives used -------------------------- *)

\* variant of Xor: the complement of x ^ y
Xnor(x, y) == (x + y + 1) % 2

\* x ^ y on single bits
Xor(x, y) == (x + y) % 2

\* f'{v:b}': the binary digits of v >= 0 without leading zeros ('0' for 0)
RECURSIVE Bin(_)
Bin(v) == IF v < 2 THEN <<v>> ELSE Append(Bin(v \div 2), v % 2)

\* f'{v:0{width}b}': zero-padded to AT LEAST width digits, never truncated
Format(v, width) ==
    LET b == Bin(v)
    IN  IF Len(b) >= width THEN b
        ELSE [i \in 1..(width - Len(b)) |-> 0] \o b

\* int(digits, 2)
RECURSIVE ParseInt(_)
ParseInt(digits) ==
    IF Len(digits) = 0 THEN 0
    ELSE 2 * ParseInt(SubSeq(digits, 1, Len(digits) - 1)) + digits[Len(digits)]

\* ceil(log(v, 2).real) for v >= 1: the least k with 2^k >= v
RECURSIVE CeilLog2From(_, _)
CeilLog2From(v, k) == IF 2^k >= v THEN k ELSE CeilLog2From(v, k + 1)
CeilLog2(v) == CeilLog2From(v, 0)

\* reduce(lambda x, y: x ^ y, xs) for a non-empty list xs
RECURSIVE ReduceXor(_)
ReduceXor(xs) ==
    IF Len(xs) = 1 THEN xs[1]
    ELSE Xor(ReduceXor(SubSeq(xs, 1, Len(xs) - 1)), xs[Len(xs)])

(* ------------------------------ class LFSR ----------------------------- *)

\* build_poly raises: log(0, 2).real is -inf, and ceil(-inf) is an OverflowError
LFSR_build_poly_raises(poly) == poly = 0

\* build_poly: field_order and the poly_str captured by the round function
LFSR_build_poly(poly) ==
    LET field_order == CeilLog2(poly)
    IN  [field_order |-> field_order, poly_str |-> Format(poly, field_order)]

\* __init__(poly, state)
LFSR_init(poly, state) ==
    LET b == LFSR_build_poly(poly)
    IN  [poly |-> poly, state |-> state, state_init |-> state,
         field_order |-> b.field_order, poly_str |-> b.poly_str]

\* the loop collecting the tapped stages into __feedback, from index x on
RECURSIVE LFSR_feedback(_, _, _, _)
LFSR_feedback(poly_str, state_elab, x, stop) ==
    IF x >= stop THEN <<>>
    ELSE (IF poly_str[x + 1] = 1 THEN <<state_elab[x + 1]>> ELSE <<>>)
         \o LFSR_feedback(poly_str, state_elab, x + 1, stop)

\* variant of LFSR_shift: the stages are not shifted
LFSR_shift_none(state_elab, field_order) == state_elab

\* state_elab[0:field_order-1] = state_elab[1:field_order]
LFSR_shift(state_elab, field_order) ==
    [i \in 1..Len(state_elab) |->
        IF i <= field_order - 1 THEN state_elab[i + 1] ELSE state_elab[i]]

\* variant of LFSR_fround: the round function works on the digits of the state
\* the register had when build_poly defined it
LFSR_fround_captured(self) ==
    LET state_elab == Format(self.state_init, self.field_order)
        feedback   == LFSR_feedback(self.poly_str, state_elab, 0, self.field_order)
        shifted    == LFSR_shift(Format(self.state, self.field_order),
                                 self.field_order)
        new_elab   == [shifted EXCEPT ![self.field_order] = ReduceXor(feedback)]
    IN  [self EXCEPT !.state = ParseInt(new_elab)]

\* variant of LFSR_fround: the feedback bit is appended after the last stage
\* and no stage is dropped
LFSR_fround_append(self) ==
    LET state_elab == Format(self.state, self.field_order)
        feedback   == LFSR_feedback(self.poly_str, state_elab, 0, self.field_order)
    IN  [self EXCEPT !.state = ParseInt(Append(state_elab, ReduceXor(feedback)))]

\* fround: one transition of the register
LFSR_fround(self) ==
    LET state_elab == Format(self.state, self.field_order)
        feedback   == LFSR_feedback(self.poly_str, state_elab, 0, self.field_order)
        shifted    == LFSR_shift(state_elab, self.field_order)
        new_elab   == [shifted EXCEPT ![self.field_order] = ReduceXor(feedback)]
    IN  [self EXCEPT !.state = ParseInt(new_elab)]

\* fround raises: reduce() of an empty __feedback, without initial value, is
\* a TypeError (self.state has not been assigned then)
LFSR_fround_raises(self) ==
    LFSR_feedback(self.poly_str, Format(self.state, self.field_order),
                  0, self.field_order) = <<>>

\* for x in range(x, stop): self.__round()
RECURSIVE LFSR_rounds(_, _, _)
LFSR_rounds(self, x, stop) ==
    IF x >= stop THEN self ELSE LFSR_rounds(LFSR_fround(self), x + 1, stop)

LFSR_next(self) ==
    LET s == LFSR_fround(self) IN [self |-> s, ret |-> s.state]

\* variant of LFSR_cycle: the loop runs over range(1, rounds)
LFSR_cycle_from1(self, rounds) ==
    LET s == LFSR_rounds(self, 1, rounds) IN [self |-> s, ret |-> s.state]

LFSR_cycle(self, rounds) ==
    LET s == LFSR_rounds(self, 0, rounds) IN [self |-> s, ret |-> s.state]

\* variant of LFSR_full_cycle: 2 * field_order rounds instead of 2 ** field_order
LFSR_full_cycle_twice(self) ==
    LET s == LFSR_rounds(self, 0, 2 * self.field_order)
    IN  [self |-> s, ret |-> s.state]

LFSR_full_cycle(self) ==
    LET s == LFSR_rounds(self, 0, 2 ^ self.field_order)
    IN  [self |-> s, ret |-> s.state]

LFSR_reset(self) == LFSR_init(self.poly, self.state_init)

\* variant of LFSR_load: the state is replaced, the initial state is kept
LFSR_load_keep_init(self, state) ==
    [LFSR_init(self.poly, state) EXCEPT !.state_init = self.state_init]

LFSR_load(self, state) == LFSR_init(self.poly, state)

\* the loop of state_table from index x on, appending to the three columns
RECURSIVE LFSR_table_loop(_, _, _, _)
LFSR_table_loop(self, x, stop, table) ==
    IF x >= stop THEN [self |-> self, table |-> table]
    ELSE LFSR_table_loop(
            LFSR_fround(self), x + 1, stop,
            [Cycle          |-> Append(table.Cycle, x),
             State          |-> Append(table.State, self.state),
             Register_State |-> Append(table.Register_State,
                                       Format(self.state, self.field_order))])

\* variant of LFSR_state_table: the last record is missing
LFSR_state_table_short(self) ==
    LET r == LFSR_table_loop(self, 0, 2 ^ self.field_order - 1,
                 [Cycle |-> <<>>, State |-> <<>>, Register_State |-> <<>>])
    IN  [self |-> LFSR_reset(r.self), ret |-> r.table]

LFSR_state_table(self) ==
    LET r == LFSR_table_loop(self, 0, 2 ^ self.field_order,
                 [Cycle |-> <<>>, State |-> <<>>, Register_State |-> <<>>])
    IN  [self |-> LFSR_reset(r.self), ret |-> r.table]

\* the loop of from_lfsrs over args from its k-th element on: each register is
\* reset and its digits are appended to elong_poly and elong_state
RECURSIVE LFSR_from_lfsrs_loop(_, _, _, _)
LFSR_from_lfsrs_loop(args, k, elong_poly, elong_state) ==
    IF k > Len(args)
    THEN [args |-> args, elong_poly |-> elong_poly, elong_state |-> elong_state]
    ELSE LET x == LFSR_reset(args[k])
         IN  LFSR_from_lfsrs_loop([args EXCEPT ![k] = x], k + 1,
                                  elong_poly \o Format(x.poly, x.field_order),
                                  elong_state \o Format(x.state, x.field_order))

\* variant of LFSR_from_lfsrs: the registers are not reset
RECURSIVE LFSR_from_lfsrs_loop_noreset(_, _, _, _)
LFSR_from_lfsrs_loop_noreset(args, k, elong_poly, elong_state) ==
    IF k > Len(args)
    THEN [args |-> args, elong_poly |-> elong_poly, elong_state |-> elong_state]
    ELSE LET x == args[k]
         IN  LFSR_from_lfsrs_loop_noreset(args, k + 1,
                                  elong_poly \o Format(x.poly, x.field_order),
                                  elong_state \o Format(x.state, x.field_order))

LFSR_from_lfsrs_noreset(args) ==
    LET r == LFSR_from_lfsrs_loop_noreset(args, 1, <<>>, <<>>)
    IN  [args |-> r.args,
         ret  |-> LFSR_init(ParseInt(r.elong_poly), ParseInt(r.elong_state))]

\* from_lfsrs(*args) for a non-empty args: the registers after the call and
\* the register returned
LFSR_from_lfsrs(args) ==
    LET r == LFSR_from_lfsrs_loop(args, 1, <<>>, <<>>)
    IN  [args |-> r.args,
         ret  |-> LFSR_init(ParseInt(r.elong_poly), ParseInt(r.elong_state))]

\* seq[i] for a Python index i, negative indices counting from the end
PyIndex(seq, i) == IF i < 0 THEN seq[Len(seq) + i + 1] ELSE seq[i + 1]

\* the loop of algebraic over range(x, stop), appending f'x ^ {field_order-x-1}'
\* (a term is <<"x ^", k>>, <<"x">> or <<"1">>)
RECURSIVE LFSR_algebraic_loop(_, _, _, _)
LFSR_algebraic_loop(poly_str, field_order, x, stop) ==
    IF x >= stop THEN <<>>
    ELSE (IF PyIndex(poly_str, x) = 1 THEN << <<"x ^", field_order - x - 1>> >>
                                      ELSE <<>>)
         \o LFSR_algebraic_loop(poly_str, field_order, x + 1, stop)

\* variant of LFSR_algebraic: the linear term is rendered as 'x ^ 1' by the
\* loop, which runs up to field_order - 1
LFSR_algebraic_no_x(self) ==
    LET poly_str == Format(self.poly, self.field_order)
    IN  LFSR_algebraic_loop(poly_str, self.field_order, 0, self.field_order - 1)
        \o (IF PyIndex(poly_str, self.field_order - 1) = 1 THEN << <<"1">> >> ELSE <<>>)

\* algebraic: the list poly_math; the property returns ' + '.join(poly_math)
LFSR_algebraic(self) ==
    LET poly_str == Format(self.poly, self.field_order)
    IN  LFSR_algebraic_loop(poly_str, self.field_order, 0, self.field_order - 2)
        \o (IF PyIndex(poly_str, self.field_order - 2) = 1 THEN << <<"x">> >> ELSE <<>>)
        \o (IF PyIndex(poly_str, self.field_order - 1) = 1 THEN << <<"1">> >> ELSE <<>>)

(* --------------------------- class Galois_LFSR ------------------------- *)

\* build_poly: poly_str = f'{poly:0b}' and field_order = len(poly_str)
Galois_LFSR_build_poly(poly) ==
    LET poly_str == Format(poly, 0)
    IN  [field_order |-> Len(poly_str), poly_str |-> poly_str]

\* __init__(poly, state)
Galois_LFSR_init(poly, state) ==
    LET b == Galois_LFSR_build_poly(poly)
    IN  [poly |-> poly, state |-> state, state_init |-> state,
         field_order |-> b.field_order, poly_str |-> b.poly_str]

\* variant of Galois_LFSR_feedback: stage x is controlled by tap x - 1
Galois_LFSR_feedback_tap0(poly_str, state_elab, field_order) ==
    [i \in 1..field_order |->
        IF i <= field_order - 1
        THEN IF poly_str[i] = 1
             THEN Xor(state_elab[1], state_elab[i + 1])
             ELSE state_elab[i + 1]
        ELSE state_elab[1]]

\* variant of Galois_LFSR_feedback: state_elab[0] is not stored into the last
\* element, which keeps its initial 0
Galois_LFSR_feedback_drop_msb(poly_str, state_elab, field_order) ==
    [i \in 1..field_order |->
        IF i <= field_order - 1
        THEN IF poly_str[i + 1] = 1
             THEN Xor(state_elab[1], state_elab[i + 1])
             ELSE state_elab[i + 1]
        ELSE 0]

\* __feedback after the loop over range(1, field_order) and the store of
\* state_elab[0] into its last element
Galois_LFSR_feedback(poly_str, state_elab, field_order) ==
    [i \in 1..field_order |->
        IF i <= field_order - 1
        THEN IF poly_str[i + 1] = 1
             THEN Xor(state_elab[1], state_elab[i + 1])
             ELSE state_elab[i + 1]
        ELSE state_elab[1]]

\* fround: one transition of the register
Galois_LFSR_fround(self) ==
    LET state_elab == Format(self.state, self.field_order)
        feedback   == Galois_LFSR_feedback(self.poly_str, state_elab,
                                           self.field_order)
    IN  [self EXCEPT !.state = ParseInt(feedback)]

\* for x in range(x, stop): self.__round()
RECURSIVE Galois_LFSR_rounds(_, _, _)
Galois_LFSR_rounds(self, x, stop) ==
    IF x >= stop THEN self
    ELSE Galois_LFSR_rounds(Galois_LFSR_fround(self), x + 1, stop)

Galois_LFSR_next(self) ==
    LET s == Galois_LFSR_fround(self) IN [self |-> s, ret |-> s.state]

Galois_LFSR_cycle(self, rounds) ==
    LET s == Galois_LFSR_rounds(self, 0, rounds)
    IN  [self |-> s, ret |-> s.state]

Galois_LFSR_full_cycle(self) ==
    LET s == Galois_LFSR_rounds(self, 0, 2 ^ self.field_order)
    IN  [self |-> s, ret |-> s.state]

\* variant of Galois_LFSR_reset: rebuilt from the current state
Galois_LFSR_reset_current(self) == Galois_LFSR_init(self.poly, self.state)

Galois_LFSR_reset(self) == Galois_LFSR_init(self.poly, self.state_init)

\* variant of Galois_LFSR_load: the loaded value is passed as polynomial too
Galois_LFSR_load_as_poly(self, state) == Galois_LFSR_init(state, state)

Galois_LFSR_load(self, state) == Galois_LFSR_init(self.poly, state)

\* the loop of state_table from index x on, appending to the three columns
RECURSIVE Galois_LFSR_table_loop(_, _, _, _)
Galois_LFSR_table_loop(self, x, stop, table) ==
    IF x >= stop THEN [self |-> self, table |-> table]
    ELSE Galois_LFSR_table_loop(
            Galois_LFSR_fround(self), x + 1, stop,
            [Cycle          |-> Append(table.Cycle, x),
             State          |-> Append(table.State, self.state),
             Register_State |-> Append(table.Register_State,
                                       Format(self.state, self.field_order))])

\* variant of Galois_LFSR_state_table: no reset after the enumeration
Galois_LFSR_state_table_noreset(self) ==
    LET r == Galois_LFSR_table_loop(self, 0, 2 ^ self.field_order,
                 [Cycle |-> <<>>, State |-> <<>>, Register_State |-> <<>>])
    IN  [self |-> r.self, ret |-> r.table]

Galois_LFSR_state_table(self) ==
    LET r == Galois_LFSR_table_loop(self, 0, 2 ^ self.field_order,
                 [Cycle |-> <<>>, State |-> <<>>, Register_State |-> <<>>])
    IN  [self |-> Galois_LFSR_reset(r.self), ret |-> r.table]

\* the loop of from_lfsrs over args from its k-th element on
RECURSIVE Galois_LFSR_from_lfsrs_loop(_, _, _, _)
Galois_LFSR_from_lfsrs_loop(args, k, elong_poly, elong_state) ==
    IF k > Len(args)
    THEN [args |-> args, elong_poly |-> elong_poly, elong_state |-> elong_state]
    ELSE LET x == Galois_LFSR_reset(args[k])
         IN  Galois_LFSR_from_lfsrs_loop([args EXCEPT ![k] = x], k + 1,
                                  elong_poly \o Format(x.poly, x.field_order),
                                  elong_state \o Format(x.state, x.field_order))

\* from_lfsrs(*args) for a non-empty args
Galois_LFSR_from_lfsrs(args) ==
    LET r == Galois_LFSR_from_lfsrs_loop(args, 1, <<>>, <<>>)
    IN  [args |-> r.args,
         ret  |-> Galois_LFSR_init(ParseInt(r.elong_poly), ParseInt(r.elong_state))]

\* the loop of algebraic over range(x, stop), appending f'x ^ {field_order-x}'
RECURSIVE Galois_LFSR_algebraic_loop(_, _, _, _)
Galois_LFSR_algebraic_loop(poly_str, field_order, x, stop) ==
    IF x >= stop THEN <<>>
    ELSE (IF PyIndex(poly_str, x) = 1 THEN << <<"x ^", field_order - x>> >>
                                      ELSE <<>>)
         \o Galois_LFSR_algebraic_loop(poly_str, field_order, x + 1, stop)

\* algebraic: the list poly_math; the property returns ' + '.join(poly_math)
Galois_LFSR_algebraic(self) ==
    LET poly_str == Format(self.poly, self.field_order)
    IN  Galois_LFSR_algebraic_loop(poly_str, self.field_order, 0, self.field_order - 1)
        \o (IF PyIndex(poly_str, self.field_order - 1) = 1 THEN << <<"x">> >> ELSE <<>>)
        \o << <<"1">> >>

(* ---------------------------- state machine ---------------------------- *)

VARIABLES
    cls,    \* the class of the register: "LFSR" or "Galois_LFSR"
    self,   \* the register object: poly, state, state_init, field_order, poly_str
    op,     \* the last method called on it
    arg,    \* that call's argument (0 when it takes none)
    ret,    \* the value that call returned ("None" when it returns nothing)
    pre,    \* the register object as it was just before that call
    given,  \* the latest state the caller supplied, and by which call
    inputs  \* the caller's other registers of the same class, which it hands
            \* to from_lfsrs after the register itself

vars == <<cls, self, op, arg, ret, pre, given, inputs>>

\* the states that fit a register of field_order bits
InRange(field_order) == 0..(2 ^ field_order - 1)

\* the states handed to load
LoadStates(field_order) == {s \in 0..MaxLoad : s \in InRange(field_order)}

\* construction LFSR(poly, state) with poly >= 2 and state < 2^field_order
LFSR_Construct ==
    \E poly \in 2..MaxPoly :
      \E state \in InRange(CeilLog2(poly)) :
        /\ cls = "LFSR"
        /\ self = LFSR_init(poly, state)
        /\ op = "__init__" /\ arg = state /\ ret = "None"
        /\ pre = self
        /\ given = [by |-> "__init__", state |-> state]
        /\ inputs = <<>>

\* construction Galois_LFSR(poly, state) with poly >= 1 and state < 2^field_order
\* (0b10011 = 19, the documented five-stage example, is tried as well)
Galois_LFSR_Construct ==
    \E poly \in (1..MaxPoly) \cup {19} :
      \E state \in InRange(Len(Bin(poly))) :
        /\ cls = "Galois_LFSR"
        /\ self = Galois_LFSR_init(poly, state)
        /\ op = "__init__" /\ arg = state /\ ret = "None"
        /\ pre = self
        /\ given = [by |-> "__init__", state |-> state]
        /\ inputs = <<>>

Init == LFSR_Construct \/ Galois_LFSR_Construct

\* a call that returns a value and takes the register from self to r.self
Called(name, a, r) ==
    /\ self' = r.self
    /\ op' = name /\ arg' = a /\ ret' = r.ret
    /\ pre' = self
    /\ UNCHANGED <<cls, given, inputs>>

LFSR_Next ==
    /\ cls = "LFSR"
    /\ Called("next", 0, LFSR_next(self))

LFSR_Cycle ==
    /\ cls = "LFSR"
    /\ \E rounds \in 0..MaxRounds : Called("cycle", rounds, LFSR_cycle(self, rounds))

LFSR_FullCycle ==
    /\ cls = "LFSR"
    /\ Called("full_cycle", 0, LFSR_full_cycle(self))

LFSR_StateTable ==
    /\ cls = "LFSR"
    /\ Called("state_table", 0, LFSR_state_table(self))

LFSR_Reset ==
    /\ cls = "LFSR"
    /\ Called("reset", 0, [self |-> LFSR_reset(self), ret |-> "None"])

LFSR_Load ==
    /\ cls = "LFSR"
    /\ \E state \in LoadStates(self.field_order) :
         /\ self' = LFSR_load(self, state)
         /\ op' = "load" /\ arg' = state /\ ret' = "None"
         /\ pre' = self
         /\ given' = [by |-> "load", state |-> state]
         /\ UNCHANGED <<cls, inputs>>

LFSR_Algebraic ==
    /\ cls = "LFSR"
    /\ Called("algebraic", 0, [self |-> self, ret |-> LFSR_algebraic(self)])

Galois_LFSR_Algebraic ==
    /\ cls = "Galois_LFSR"
    /\ Called("algebraic", 0, [self |-> self, ret |-> Galois_LFSR_algebraic(self)])

Galois_LFSR_Next ==
    /\ cls = "Galois_LFSR"
    /\ Called("next", 0, Galois_LFSR_next(self))

Galois_LFSR_Cycle ==
    /\ cls = "Galois_LFSR"
    /\ \E rounds \in 0..MaxRounds :
         Called("cycle", rounds, Galois_LFSR_cycle(self, rounds))

Galois_LFSR_FullCycle ==
    /\ cls = "Galois_LFSR"
    /\ Called("full_cycle", 0, Galois_LFSR_full_cycle(self))

Galois_LFSR_StateTable ==
    /\ cls = "Galois_LFSR"
    /\ Called("state_table", 0, Galois_LFSR_state_table(self))

Galois_LFSR_Reset ==
    /\ cls = "Galois_LFSR"
    /\ Called("reset", 0, [self |-> Galois_LFSR_reset(self), ret |-> "None"])

Galois_LFSR_Load ==
    /\ cls = "Galois_LFSR"
    /\ \E state \in LoadStates(self.field_order) :
         /\ self' = Galois_LFSR_load(self, state)
         /\ op' = "load" /\ arg' = state /\ ret' = "None"
         /\ pre' = self
         /\ given' = [by |-> "load", state |-> state]
         /\ UNCHANGED <<cls, inputs>>

Next ==
    \/ LFSR_Next
    \/ LFSR_Cycle
    \/ LFSR_FullCycle
    \/ LFSR_StateTable
    \/ LFSR_Reset
    \/ LFSR_Load
    \/ LFSR_Algebraic
    \/ Galois_LFSR_Algebraic
    \/ Galois_LFSR_Next
    \/ Galois_LFSR_Cycle
    \/ Galois_LFSR_FullCycle
    \/ Galois_LFSR_StateTable
    \/ Galois_LFSR_Reset
    \/ Galois_LFSR_Load

Spec == Init /\ [][Next]_vars

TypeOK ==
    /\ cls \in {"LFSR", "Galois_LFSR"}
    /\ self.poly \in (1..MaxPoly) \cup {19}
    /\ self.state \in Nat
    /\ self.state_init \in Nat
    /\ op \in {"__init__", "next", "cycle", "full_cycle", "state_table",
               "reset", "load", "algebraic"}

(* ------------------- arithmetic reading of registers ------------------- *)

\* the number of binary digits of p >= 1, without leading zeros
BitLength(p) == CHOOSE k \in 1..(p + 1) : 2 ^ (k - 1) <= p /\ p < 2 ^ k

\* bit i (i = 0 is the most significant) of v read as a width-bit number
BitFromMsb(v, width, i) == (v \div (2 ^ (width - 1 - i))) % 2

\* tap[i]: the i-th bit of p's binary representation from its top bit
Tap(p, i) == BitFromMsb(p, BitLength(p), i)

\* the XOR of the stages s[i], i in [0, n), whose tap is set
TappedParity(p, n, s) ==
    Cardinality({i \in 0..(n - 1) : Tap(p, i) = 1 /\ BitFromMsb(s, n, i) = 1}) % 2

(* ------------------- several registers and from_lfsrs ------------------ *)

\* the registers LFSR(poly, state) a caller builds to compose them
LFSR_Registers ==
    UNION {{LFSR_init(poly, state) : state \in InRange(CeilLog2(poly))} :
             poly \in 2..MaxInputPoly}

Galois_LFSR_Registers ==
    UNION {{Galois_LFSR_init(poly, state) : state \in InRange(Len(Bin(poly)))} :
             poly \in 1..MaxInputPoly}

\* construction of the register and of 1 .. MaxInputs further ones
LFSR_ConstructSeveral ==
    /\ cls = "LFSR"
    /\ self \in LFSR_Registers
    /\ op = "__init__" /\ arg = self.state /\ ret = "None"
    /\ pre = self
    /\ given = [by |-> "__init__", state |-> self.state]
    /\ inputs \in UNION {[1..k -> LFSR_Registers] : k \in 1..MaxInputs}

Galois_LFSR_ConstructSeveral ==
    /\ cls = "Galois_LFSR"
    /\ self \in Galois_LFSR_Registers
    /\ op = "__init__" /\ arg = self.state /\ ret = "None"
    /\ pre = self
    /\ given = [by |-> "__init__", state |-> self.state]
    /\ inputs \in UNION {[1..k -> Galois_LFSR_Registers] : k \in 1..MaxInputs}

InitCompose == LFSR_ConstructSeveral \/ Galois_LFSR_ConstructSeveral

\* next() on one of the further registers
LFSR_InputNext ==
    /\ cls = "LFSR"
    /\ \E i \in 1..Len(inputs) :
         LET r == LFSR_next(inputs[i])
         IN  /\ inputs' = [inputs EXCEPT ![i] = r.self]
             /\ op' = "inputs.next" /\ arg' = i /\ ret' = r.ret
             /\ pre' = self
             /\ UNCHANGED <<cls, self, given>>

Galois_LFSR_InputNext ==
    /\ cls = "Galois_LFSR"
    /\ \E i \in 1..Len(inputs) :
         LET r == Galois_LFSR_next(inputs[i])
         IN  /\ inputs' = [inputs EXCEPT ![i] = r.self]
             /\ op' = "inputs.next" /\ arg' = i /\ ret' = r.ret
             /\ pre' = self
             /\ UNCHANGED <<cls, self, given>>

\* load(state) on one of the further registers
LFSR_InputLoad ==
    /\ cls = "LFSR"
    /\ \E i \in 1..Len(inputs) :
         \E state \in LoadStates(inputs[i].field_order) :
             /\ inputs' = [inputs EXCEPT ![i] = LFSR_load(inputs[i], state)]
             /\ op' = "inputs.load" /\ arg' = i /\ ret' = "None"
             /\ pre' = self
             /\ UNCHANGED <<cls, self, given>>

Galois_LFSR_InputLoad ==
    /\ cls = "Galois_LFSR"
    /\ \E i \in 1..Len(inputs) :
         \E state \in LoadStates(inputs[i].field_order) :
             /\ inputs' = [inputs EXCEPT ![i] = Galois_LFSR_load(inputs[i], state)]
             /\ op' = "inputs.load" /\ arg' = i /\ ret' = "None"
             /\ pre' = self
             /\ UNCHANGED <<cls, self, given>>

\* cls.from_lfsrs(self, *inputs): arg keeps the further registers as they
\* were before the call, ret is the register returned
LFSR_FromLfsrs ==
    /\ cls = "LFSR"
    /\ LET r == LFSR_from_lfsrs(<<self>> \o inputs)
       IN  /\ self' = Head(r.args)
           /\ inputs' = Tail(r.args)
           /\ op' = "from_lfsrs" /\ arg' = inputs /\ ret' = r.ret
           /\ pre' = self
           /\ UNCHANGED <<cls, given>>

Galois_LFSR_FromLfsrs ==
    /\ cls = "Galois_LFSR"
    /\ LET r == Galois_LFSR_from_lfsrs(<<self>> \o inputs)
       IN  /\ self' = Head(r.args)
           /\ inputs' = Tail(r.args)
           /\ op' = "from_lfsrs" /\ arg' = inputs /\ ret' = r.ret
           /\ pre' = self
           /\ UNCHANGED <<cls, given>>

\* composing registers that have been advanced by next()
NextCompose ==
    \/ LFSR_Next
    \/ LFSR_InputNext
    \/ LFSR_FromLfsrs
    \/ Galois_LFSR_Next
    \/ Galois_LFSR_InputNext
    \/ Galois_LFSR_FromLfsrs

SpecCompose == InitCompose /\ [][NextCompose]_vars

\* construction of the register and of one other register of its class
LFSR_ConstructPair ==
    /\ cls = "LFSR"
    /\ self \in LFSR_Registers
    /\ op = "__init__" /\ arg = self.state /\ ret = "None"
    /\ pre = self
    /\ given = [by |-> "__init__", state |-> self.state]
    /\ \E other \in LFSR_Registers : inputs = <<other>>

Galois_LFSR_ConstructPair ==
    /\ cls = "Galois_LFSR"
    /\ self \in Galois_LFSR_Registers
    /\ op = "__init__" /\ arg = self.state /\ ret = "None"
    /\ pre = self
    /\ given = [by |-> "__init__", state |-> self.state]
    /\ \E other \in Galois_LFSR_Registers : inputs = <<other>>

InitPair == LFSR_ConstructPair \/ Galois_LFSR_ConstructPair

\* two registers, each called in any order: every method on the first, next
\* and load on the other
NextPair ==
    \/ Next
    \/ LFSR_InputNext
    \/ LFSR_InputLoad
    \/ Galois_LFSR_InputNext
    \/ Galois_LFSR_InputLoad

SpecPair == InitPair /\ [][NextPair]_vars

(* ---------------------- unchecked polynomials and states --------------- *)

\* construction LFSR(poly, state) with any poly >= 0 and state >= 0: when
\* build_poly raises, the caller gets the exception and no register (self is
\* then the abandoned object, which has no field_order)
LFSR_ConstructAny ==
    \E poly \in 0..MaxAnyPoly :
      \E state \in 0..MaxAnyState :
        /\ cls = "LFSR"
        /\ IF LFSR_build_poly_raises(poly)
           THEN /\ self = [poly |-> poly, state |-> state, state_init |-> state]
                /\ ret = "OverflowError"
           ELSE /\ self = LFSR_init(poly, state)
                /\ ret = "None"
        /\ op = "__init__" /\ arg = state
        /\ pre = self
        /\ given = [by |-> "__init__", state |-> state]
        /\ inputs = <<>>

\* construction Galois_LFSR(poly, state) with any poly >= 0 and state >= 0:
\* nothing in __init__ or build_poly raises
Galois_LFSR_ConstructAny ==
    \E poly \in 0..MaxAnyPoly :
      \E state \in 0..MaxAnyState :
        /\ cls = "Galois_LFSR"
        /\ self = Galois_LFSR_init(poly, state)
        /\ op = "__init__" /\ arg = state /\ ret = "None"
        /\ pre = self
        /\ given = [by |-> "__init__", state |-> state]
        /\ inputs = <<>>

InitAny == LFSR_ConstructAny \/ Galois_LFSR_ConstructAny

\* the constructor returned a register
Constructed == ~(op = "__init__" /\ ret = "OverflowError")

\* the round function of the register does not raise
RoundDefined == cls = "LFSR" => ~LFSR_fround_raises(self)

\* next() on a register whose round function raises: the TypeError reaches
\* the caller and the register is as before
LFSR_NextRaises ==
    /\ cls = "LFSR"
    /\ Constructed
    /\ LFSR_fround_raises(self)
    /\ Called("next", 0, [self |-> self, ret |-> "TypeError"])

\* load(state) with any state >= 0
LFSR_LoadAny ==
    /\ cls = "LFSR"
    /\ Constructed
    /\ \E state \in 0..MaxAnyState :
         /\ self' = LFSR_load(self, state)
         /\ op' = "load" /\ arg' = state /\ ret' = "None"
         /\ pre' = self
         /\ given' = [by |-> "load", state |-> state]
         /\ UNCHANGED <<cls, inputs>>

Galois_LFSR_LoadAny ==
    /\ cls = "Galois_LFSR"
    /\ \E state \in 0..MaxAnyState :
         /\ self' = Galois_LFSR_load(self, state)
         /\ op' = "load" /\ arg' = state /\ ret' = "None"
         /\ pre' = self
         /\ given' = [by |-> "load", state |-> state]
         /\ UNCHANGED <<cls, inputs>>

NextAny ==
    \/ (Constructed /\ RoundDefined /\ Next)
    \/ LFSR_NextRaises
    \/ LFSR_LoadAny
    \/ Galois_LFSR_LoadAny

SpecAny == InitAny /\ [][NextAny]_vars

\* the method of the register's class applied to a register
ClsNext(c, r)     == IF c = "LFSR" THEN LFSR_next(r) ELSE Galois_LFSR_next(r)
ClsCycle(c, r, k) == IF c = "LFSR" THEN LFSR_cycle(r, k) ELSE Galois_LFSR_cycle(r, k)

\* the register after n successive next() calls
RECURSIVE NextCalls(_, _, _)
NextCalls(c, r, n) ==
    IF n = 0 THEN r ELSE NextCalls(c, ClsNext(c, r).self, n - 1)

(* -------------------------------- claims ------------------------------- *)

\* C1: one next() of the Fibonacci register stores and returns the n-bit
\* number whose bits are s[1], ..., s[n-1] followed by the XOR of the tapped
\* stages of s; polynomial 0b1011 with state 0b0001 gives 0b0011.
C1_FibonacciStep ==
    (cls = "LFSR" /\ op = "next") =>
        LET n == pre.field_order
        IN  /\ self.state \in InRange(n)
            /\ ret = self.state
            /\ \A j \in 0..(n - 2) :
                 BitFromMsb(self.state, n, j) = BitFromMsb(pre.state, n, j + 1)
            /\ BitFromMsb(self.state, n, n - 1) = TappedParity(pre.poly, n, pre.state)
            /\ (pre.poly = 11 /\ pre.state = 1) => ret = 3

C1_Witness ==
    /\ cls = "LFSR" /\ op = "next"
    /\ pre.poly = 11 /\ pre.state = 1 /\ pre.field_order = 4
    /\ self.state = 3

\* C2: one next() of the Galois register, whose field order n is the bit
\* length of the polynomial, stores and returns the number with bits
\* new[i-1] = s[i] XOR s[0] where tap[i] is set and s[i] elsewhere, for i in
\* [1, n), and new[n-1] = s[0]; polynomial 0b10011 with state 0b00001 gives
\* 0b00010.
C2_GaloisStep ==
    (cls = "Galois_LFSR" /\ op = "next") =>
        LET n   == BitLength(pre.poly)
            msb == BitFromMsb(pre.state, n, 0)
        IN  /\ pre.field_order = n
            /\ self.state \in InRange(n)
            /\ ret = self.state
            /\ \A i \in 1..(n - 1) :
                 BitFromMsb(self.state, n, i - 1) =
                    IF Tap(pre.poly, i) = 1
                    THEN Xor(BitFromMsb(pre.state, n, i), msb)
                    ELSE BitFromMsb(pre.state, n, i)
            /\ BitFromMsb(self.state, n, n - 1) = msb
            /\ (pre.poly = 19 /\ pre.state = 1) => ret = 2

C2_Witness ==
    /\ cls = "Galois_LFSR" /\ op = "next"
    /\ pre.poly = 19 /\ pre.state = 1 /\ pre.field_order = 5
    /\ self.state = 2

\* C3: the state of a register built and loaded with in-range states is
\* always in [0, 2^field_order).
C3_StateInRange == self.state \in InRange(self.field_order)

C3_Witness ==
    /\ op \in {"next", "cycle", "full_cycle"}
    /\ self.field_order = 4
    /\ self.state = 15 /\ pre.state # 15

\* C4: cycle(n) returns, and leaves the register in, the state that n
\* successive next() calls produce; cycle(0) changes nothing and returns the
\* current state.
C4_CycleIsRepeatedNext ==
    op = "cycle" =>
        /\ self = NextCalls(cls, pre, arg)
        /\ ret = self.state
        /\ arg = 0 => (self = pre /\ ret = pre.state)

C4_Witness ==
    /\ op = "cycle" /\ arg = 3
    /\ self.state # pre.state
    /\ self.state # ClsNext(cls, pre).ret

\* C5: right after construction the state is the supplied state, and as long
\* as no load has been called reset() sets the state back to it.
C5_ResetRestoresConstructed ==
    /\ op = "__init__" => (self.state = arg /\ given.state = arg)
    /\ (op = "reset" /\ given.by = "__init__") => self.state = given.state

C5_Witness ==
    /\ op = "reset" /\ given.by = "__init__"
    /\ pre.state # given.state
    /\ self.state = given.state

\* C6: load(s) sets state and initial state to s and keeps the polynomial
\* and the field order, as a fresh construction with (polynomial, s) would;
\* a later reset() returns the state to s.
C6_LoadIsReconstruction ==
    /\ op = "load" =>
         /\ self.state = arg /\ self.state_init = arg
         /\ self.poly = pre.poly /\ self.field_order = pre.field_order
         /\ self = (IF cls = "LFSR" THEN LFSR_init(pre.poly, arg)
                                    ELSE Galois_LFSR_init(pre.poly, arg))
    /\ (op = "reset" /\ given.by = "load") => self.state = given.state

C6_Witness ==
    /\ op = "reset" /\ given.by = "load"
    /\ pre.state # given.state
    /\ self.state = given.state

\* C7: state_table returns 2^field_order records with cycle indices 0, 1,
\* ... in order; record 0 holds the state before the call, each later record
\* the result of one transition on the record before it, and each bit string
\* is the record's state in field_order zero-padded binary digits.
C7_StateTableRecords ==
    op = "state_table" =>
        LET n == pre.field_order
        IN  /\ Len(ret.Cycle) = 2 ^ n
            /\ Len(ret.State) = 2 ^ n
            /\ Len(ret.Register_State) = 2 ^ n
            /\ \A k \in 1..(2 ^ n) : ret.Cycle[k] = k - 1
            /\ ret.State[1] = pre.state
            /\ \A k \in 1..(2 ^ n - 1) :
                 ret.State[k + 1] =
                    ClsNext(cls, [pre EXCEPT !.state = ret.State[k]]).ret
            /\ \A k \in 1..(2 ^ n) :
                 /\ Len(ret.Register_State[k]) = n
                 /\ \A i \in 1..n :
                      ret.Register_State[k][i] = BitFromMsb(ret.State[k], n, i - 1)

C7_Witness ==
    /\ op = "state_table"
    /\ pre.state # pre.state_init
    /\ Len(ret.State) = 16
    /\ ret.State[1] = pre.state /\ ret.State[2] # pre.state
    /\ ret.Register_State[1][1] = 0

\* C8: after state_table the state equals the initial state (the one given
\* at construction or by the latest load), and the initial state, the
\* polynomial and the field order are those of before the call.
C8_StateTableEndsAtInitial ==
    op = "state_table" =>
        /\ self.state = self.state_init
        /\ self.state_init = pre.state_init
        /\ self.state_init = given.state
        /\ self.poly = pre.poly
        /\ self.field_order = pre.field_order

C8_Witness ==
    /\ op = "state_table"
    /\ pre.state # pre.state_init
    /\ self.state = pre.state_init

\* C9: the state after state_table equals the state just before the call.
C9_StateTableKeepsState == op = "state_table" => self.state = pre.state

\* C10: full_cycle() returns and stores the state that cycle(2^field_order)
\* produces from the same starting state.
C10_FullCycleIsCycleOfTwoToN ==
    op = "full_cycle" =>
        LET c == ClsCycle(cls, pre, 2 ^ pre.field_order)
        IN  self = c.self /\ ret = c.ret

C10_Witness ==
    /\ op = "full_cycle"
    /\ self.state # pre.state
    /\ self.state # self.state_init
    /\ ret = self.state

\* C11: polynomial and field order (and the digits of the polynomial the
\* round function reads) are the same after every call as before it; the
\* initial state changes only in load.
C11_PolynomialAndOrderFixed ==
    op # "__init__" =>
        /\ self.poly = pre.poly
        /\ self.field_order = pre.field_order
        /\ self.poly_str = pre.poly_str
        /\ op # "load" => self.state_init = pre.state_init

C11_Witness ==
    /\ op = "load"
    /\ self.state_init # pre.state_init
    /\ self.poly = pre.poly /\ self.field_order = pre.field_order
    /\ self.field_order = 4

\* C12: the field order of a Fibonacci register is the bit length of its
\* polynomial, so that the digits of the polynomial are field_order many.
C12_FieldOrderIsBitLength ==
    cls = "LFSR" =>
        /\ self.field_order = BitLength(self.poly)
        /\ Len(self.poly_str) = self.field_order

\* C16: algebraic of a Fibonacci register renders one term per set bit i of
\* the n-bit tap vector, in increasing i: 'x ^ (n-1-i)' for i < n-2, 'x' for
\* i = n-2, '1' for i = n-1; 0b1011 gives 'x ^ 3 + x + 1'; the register is
\* left as it was.
C16_Term(n, i) ==
    IF i < n - 2 THEN <<"x ^", n - 1 - i>>
    ELSE IF i = n - 2 THEN <<"x">> ELSE <<"1">>

C16_Terms(p, n) ==
    LET set == SelectSeq([k \in 1..n |-> k - 1], LAMBDA i : Tap(p, i) = 1)
    IN  [k \in 1..Len(set) |-> C16_Term(n, set[k])]

C16_FibonacciAlgebraic ==
    (cls = "LFSR" /\ op = "algebraic") =>
        /\ ret = C16_Terms(pre.poly, pre.field_order)
        /\ pre.poly = 11 => ret = << <<"x ^", 3>>, <<"x">>, <<"1">> >>
        /\ self = pre

C16_Witness ==
    /\ cls = "LFSR" /\ op = "algebraic"
    /\ pre.poly = 11 /\ pre.state # pre.state_init
    /\ ret = << <<"x ^", 3>>, <<"x">>, <<"1">> >>

\* C19: no other in-range state has the successor of the register's state,
\* and repeated next() calls bring the register back to its state after at
\* least 1 and at most 2^field_order steps.
C19_TransitionIsBijection ==
    LET n == self.field_order
    IN  /\ \A t \in InRange(n) :
             t # self.state =>
                ClsNext(cls, [self EXCEPT !.state = t]).ret # ClsNext(cls, self).ret
        /\ \E k \in 1..(2 ^ n) : NextCalls(cls, self, k).state = self.state

C19_Witness ==
    /\ op = "next" /\ self.field_order = 4
    /\ NextCalls(cls, self, 1).state # self.state
    /\ NextCalls(cls, self, 2).state # self.state
    /\ NextCalls(cls, self, 4).state # self.state
    /\ \E k \in 5..16 : NextCalls(cls, self, k).state = self.state

\* C20: after next, cycle or full_cycle the state is 0 exactly if it was 0
\* before the call.
C20_ZeroAbsorbingAndIsolated ==
    op \in {"next", "cycle", "full_cycle"} => (self.state = 0 <=> pre.state = 0)

C20_Witness ==
    /\ op = "next" /\ pre.state = 0 /\ self.state = 0
    /\ self.field_order >= 3
    /\ ClsNext(cls, [self EXCEPT !.state = 1]).ret # 0

\* the registers from_lfsrs was called with, as they were before the call
ArgsBefore == <<pre>> \o arg

\* the sum of the field orders of the first k registers of regs
RECURSIVE SumOfOrders(_, _)
SumOfOrders(regs, k) ==
    IF k = 0 THEN 0 ELSE SumOfOrders(regs, k - 1) + regs[k].field_order

\* the number whose digits are those of vals[1], ..., vals[k], each in the
\* field order of the register at the same place, most significant first
RECURSIVE Concatenated(_, _, _)
Concatenated(regs, vals, k) ==
    IF k = 0 THEN 0
    ELSE Concatenated(regs, vals, k - 1) * (2 ^ regs[k].field_order) + vals[k]

\* C15: the register from_lfsrs returns has the sum of the inputs' field
\* orders as field order, and as polynomial and state the concatenation of
\* the inputs' polynomials and reset states, first input most significant.
C15_FromLfsrsConcatenates ==
    op = "from_lfsrs" =>
        LET regs == ArgsBefore
            k    == Len(regs)
        IN  /\ ret.field_order = SumOfOrders(regs, k)
            /\ ret.poly  = Concatenated(regs, [i \in 1..k |-> regs[i].poly], k)
            /\ ret.state = Concatenated(regs, [i \in 1..k |-> regs[i].state_init], k)

\* C17: from_lfsrs leaves every input at its own initial state, with
\* polynomial, field order and initial state as before, and the state of the
\* register returned is built from those initial states.
C17_FromLfsrsResetsInputs ==
    op = "from_lfsrs" =>
        LET before == ArgsBefore
            after  == <<self>> \o inputs
            k      == Len(before)
        IN  /\ Len(after) = k
            /\ \A i \in 1..k :
                 /\ after[i].state = before[i].state_init
                 /\ after[i].state_init = before[i].state_init
                 /\ after[i].poly = before[i].poly
                 /\ after[i].field_order = before[i].field_order
            /\ ret.state =
                 Concatenated(before, [i \in 1..k |-> before[i].state_init], k)

C17_Witness ==
    /\ op = "from_lfsrs"
    /\ pre.state # pre.state_init
    /\ arg[1].state # arg[1].state_init
    /\ self.state = pre.state_init
    /\ inputs[1].state = arg[1].state_init
    /\ ret.state # Concatenated(ArgsBefore,
                                [i \in 1..Len(ArgsBefore) |-> ArgsBefore[i].state],
                                Len(ArgsBefore))

\* C18: a next() call returns what next() returns on any other register with
\* the same polynomial and the same state, whatever the initial states and
\* the earlier calls on the two registers.
C18_NextHasNoHiddenState ==
    op = "next" =>
        \A i \in 1..Len(inputs) :
            (inputs[i].poly = pre.poly /\ inputs[i].state = pre.state) =>
                ClsNext(cls, inputs[i]).ret = ret

C18_Witness ==
    /\ op = "next"
    /\ inputs[1].poly = pre.poly /\ inputs[1].state = pre.state
    /\ inputs[1].state_init # pre.state_init
    /\ ret # pre.state
    /\ ClsNext(cls, inputs[1]).ret = ret

\* the polynomial of the register is one its class can derive a width from
ValidPolynomial == IF cls = "LFSR" THEN self.poly >= 2 ELSE self.poly >= 1

\* C13: construction with a polynomial that is too small (LFSR: <= 1,
\* Galois_LFSR: 0) fails with an error, and no register has a field order
\* <= 0.
C13_TooSmallPolynomialRejected ==
    /\ (op = "__init__" /\ ~ValidPolynomial) => ~Constructed
    /\ Constructed => self.field_order >= 1

\* C14: a register with a valid polynomial never holds a state
\* >= 2^field_order, whatever state the caller supplied at construction or
\* to load.
C14_OutOfRangeStateNotKept ==
    (Constructed /\ ValidPolynomial) => self.state \in InRange(self.field_order)

=============================================================================
